---- MODULE Spec2Model ----
(***************************************************************************)
(* A model of the comment-retrieval pipeline of scraper.py:                *)
(*   extract_video_id, get_video_title, exponential_backoff_request,       *)
(*   fetch_all_comment_threads, flatten_comment_thread, scrape_comments,   *)
(* and of the classification of classifier.py as app.py calls it.          *)
(*                                                                         *)
(* Conventions.  A Python string is a sequence of atoms (indivisible       *)
(* pieces of text); the path separator "/" is an atom of its own.  Python's *)
(* None and a local that is not assigned yet are the atom None, wrapped in *)
(* a one-element sequence where the variable otherwise holds a string.     *)
(* The remote API is the environment: it answers each GET with a status    *)
(* and a body of its choice, and serves the comment pages by page token.   *)
(***************************************************************************)
EXTENDS Integers, Sequences, FiniteSets, TLC

VARIABLES
    url,          \* the argument video_url / youtube_url
    pc,           \* position of the invocation
    video_id,     \* scrape_comments: video_id
    title,        \* scrape_comments: title
    params,       \* fetch_all_comment_threads: params (a dict)
    comments,     \* fetch_all_comment_threads: comments
    next_token,   \* fetch_all_comment_threads: next_token
    page,         \* fetch_all_comment_threads: page
    max_retries,  \* exponential_backoff_request: max_retries
    attempt,      \* exponential_backoff_request: attempt
    resp,         \* the last response received (resp / response)
    error,        \* the exception that left the entry point, if any
    result,       \* <<v>> once the entry point returned v, << >> before
    pages,        \* remote: the comment pages served so far, by page number
    requests,     \* history: the endpoint of every GET issued, in order
    statuses,     \* history: the statuses answered to the current fetch call
    sleeps,       \* history: the backoff sleeps of the current fetch call
    throttles,    \* history: number of inter-page sleeps
    title_resp,   \* history: the response to the metadata GET
    records,      \* process_youtube_video: comments, the records to classify
    categories,   \* classify_comments: df["category"], filled row by row
    results,      \* process_youtube_video: results, the labelled items
    other         \* the invocation that runs in parallel, while it waits

vars == <<url, pc, video_id, title, params, comments, next_token, page,
          max_retries, attempt, resp, error, result, pages, requests,
          statuses, sleeps, throttles, title_resp, records, categories,
          results, other>>

\* the state of the classification step
batch == <<records, categories, results>>

----------------------------------------------------------------------------
(* Bounds of the model *)

MaxPathLen == 5       \* atoms in a URL path
MaxQueryLen == 2      \* key=value pairs in a URL query
MaxPages == 3         \* comment pages the remote holds at most
MaxItems == 2         \* items on one comment page
MaxRetriesArg == 6    \* largest max_retries passed to a direct fetch call
MaxTitleLen == 3      \* atoms in a video title
MaxTextLen == 3       \* atoms in a comment text
MaxBusy == 2          \* 429 answers to one fetch call of a parallel invocation

----------------------------------------------------------------------------
(* Values *)

None == "None"
UnsetStr == <<None>>
NoError == [kind |-> "", status |-> 0]
Err(kind, status) == [kind |-> kind, status |-> status]

Sep == "/"
PathAtoms == {Sep, "shorts", "ID"}
QueryKeys == {"v", "t"}
QueryValues == {<<>>, <<"ID">>}
Hosts == {"youtu.be", "www.youtu.be", "YOUTU.BE", "youtube.com",
          "www.youtube.com", "m.youtube.com", "music.youtube.com"}

SeqsUpTo(S, n) == UNION {[1..k -> S] : k \in 0..n}

\* A URL with a host has an empty path or a path that starts with "/".
Paths == {p \in SeqsUpTo(PathAtoms, MaxPathLen) : p = <<>> \/ p[1] = Sep}
Queries == SeqsUpTo(QueryKeys \X QueryValues, MaxQueryLen)

\* The text  scheme://host path ?query ; scheme "" is a URL written without
\* "https://", e.g. "youtu.be/ID".
URLs == [scheme : {"https"}, host : Hosts, path : Paths, query : Queries]
        \cup [scheme : {""}, host : {"youtu.be"}, path : Paths, query : Queries]

----------------------------------------------------------------------------
(* extract_video_id *)

\* str.lower() on the host names of the model
Lower(h) == IF h = "YOUTU.BE" THEN "youtu.be" ELSE h

\* urlparse: hostname is lower-cased; without "//" there is no netloc, the
\* host text is part of the path and hostname is None.
urlparse(u) ==
    IF u.scheme = ""
    THEN [hostname |-> None, path |-> <<u.host>> \o u.path, query |-> u.query]
    ELSE [hostname |-> Lower(u.host), path |-> u.path, query |-> u.query]

\* str.lstrip("/")
RECURSIVE lstrip(_)
lstrip(s) == IF s # <<>> /\ Head(s) = Sep THEN lstrip(Tail(s)) ELSE s

\* str.split("/")
RECURSIVE split(_)
split(s) ==
    IF \A i \in DOMAIN s : s[i] # Sep
    THEN <<s>>
    ELSE LET i == CHOOSE j \in DOMAIN s :
                      s[j] = Sep /\ \A k \in 1..(j-1) : s[k] # Sep
         IN <<SubSeq(s, 1, i-1)>> \o split(SubSeq(s, i+1, Len(s)))

\* parse_qs: pairs with a blank value are dropped; each key maps to the list
\* of its values in order.
parse_qs(q) ==
    LET kept == SelectSeq(q, LAMBDA p : p[2] # <<>>)
        keys == {kept[i][1] : i \in DOMAIN kept}
        of(k) == SelectSeq(kept, LAMBDA p : p[1] = k)
    IN [k \in keys |-> [i \in 1..Len(of(k)) |-> of(k)[i][2]]]

ShortHosts == {"youtu.be", "www.youtu.be"}
CanonicalHosts == {"www.youtube.com", "youtube.com", "m.youtube.com"}

\* path_parts[-1] when "shorts" in path_parts
ShortsId(path_parts) == path_parts[Len(path_parts)]

\* the host test of line 8
IsShortHostAny(hostname) == hostname \in ShortHosts \cup CanonicalHosts
IsShortHost(hostname) == hostname \in ShortHosts

\* qs["v"][0]
QueryId(qs) == qs["v"][1]

Returned(id) == [error |-> NoError, id |-> id]
Raised(kind) == [error |-> Err(kind, 0), id |-> UnsetStr]

extract_video_id(youtube_url) ==
    LET parsed == urlparse(youtube_url)
        qs == parse_qs(parsed.query)
        path_parts == split(parsed.path)
    IN IF IsShortHost(parsed.hostname)
       THEN Returned(lstrip(parsed.path))
       ELSE IF parsed.hostname \in CanonicalHosts /\ "v" \in DOMAIN qs
       THEN Returned(QueryId(qs))
       ELSE IF parsed.hostname \in CanonicalHosts
               /\ \E i \in DOMAIN path_parts : path_parts[i] = <<"shorts">>
       THEN Returned(ShortsId(path_parts))
       ELSE Raised("ValueError")

----------------------------------------------------------------------------
(* HTTP: responses and the remote API *)

\* A response: status 0 stands for a GET that raised instead of answering
\* (connection error, timeout).  The body is JSON or not; a JSON body may lack
\* the "items" key; nextPageToken is None when the key is absent or null.
Body(json, has_items, items, tok) ==
    [json |-> json, has_items |-> has_items, items |-> items, nextPageToken |-> tok]
NoBody == Body(FALSE, FALSE, << >>, None)
NoResponse == [status |-> 0, body |-> NoBody]

TransientStatuses == {403, 429, 500, 503}

\* Response.raise_for_status: HTTPError for 4xx and 5xx only
RaisesForStatus(status) == 400 <= status /\ status < 600

\* the names of the continuation tokens: page k+1 is served for TokenNames[k+1]
TokenNames == <<"-", "A", "B", "C", "D", "E", "F", "G">>

\* truthiness of next_token (line 57, line 69)
Truthy(tok) == tok # None /\ tok # ""

\* An optional JSON field: << >> when the key is absent, <<v>> when present.
\* dict.get(key, default)
Get(field, default) == IF field = << >> THEN default ELSE field[1]

\* the publication times of the comments: row k holds those of page k
Stamps ==
    << <<"2024-01-01T00:00:01Z", "2024-01-01T00:00:02Z", "2024-01-01T00:00:03Z">>,
       <<"2024-01-02T00:00:01Z", "2024-01-02T00:00:02Z", "2024-01-02T00:00:03Z">>,
       <<"2024-01-03T00:00:01Z", "2024-01-03T00:00:02Z", "2024-01-03T00:00:03Z">>,
       <<"2024-01-04T00:00:01Z", "2024-01-04T00:00:02Z", "2024-01-04T00:00:03Z">> >>

\* the item i of page k as the API returns it
RawItem(k, i) ==
    [id |-> <<k, i>>,
     textDisplay |-> IF i > 2 THEN << >> ELSE <<"text">>,
     publishedAt |-> <<Stamps[k][i]>>,
     likeCount |-> IF i = 2 THEN << >> ELSE <<"5">>,
     totalReplyCount |-> IF i = 2 THEN << >> ELSE <<"1">>]

\* the page the request asks for: none for the first, else the token's page
PageOfRequest(p) ==
    IF "pageToken" \notin DOMAIN p THEN 1
    ELSE CHOOSE k \in DOMAIN TokenNames : TokenNames[k] = p["pageToken"]

\* the tokens the remote may put on page k: none (absent or null), an empty
\* string, or the token of page k+1 while it has more pages
TokensOf(k) == {None, ""} \cup (IF k < MaxPages THEN {TokenNames[k+1]} ELSE {})

\* the bodies the comment-listing endpoint may send with a 200 for page k:
\* the page it already served for that token, or a new page of its choice
\* (a page without items may lack the "items" key)
ListingBodies(k) ==
    IF k <= Len(pages)
    THEN {pages[k]}
    ELSE {Body(TRUE, TRUE, [i \in 1..n |-> RawItem(k, i)], t) :
             n \in 0..MaxItems, t \in TokensOf(k)}
         \cup {Body(TRUE, FALSE, << >>, t) : t \in TokensOf(k)}

\* what the remote may answer to a comment-listing GET with parameters p
ScrapeStatuses == {200, 404, 429}
ListingReplies(p) ==
    {[status |-> 200, body |-> b] : b \in ListingBodies(PageOfRequest(p)) \cup {NoBody}}
    \cup {[status |-> st, body |-> NoBody] : st \in ScrapeStatuses \ {200}}
    \cup {NoResponse}

\* what the remote may answer to a direct call of exponential_backoff_request
FetchStatuses == {200, 304, 404} \cup TransientStatuses
FetchReplies == {[status |-> st, body |-> NoBody] : st \in FetchStatuses} \cup {NoResponse}

\* the remote's pages after it answered r to a request for page k
RemoteAfter(r, k) ==
    IF r.status = 200 /\ r.body.json /\ k = Len(pages) + 1
    THEN Append(pages, r.body)
    ELSE pages

----------------------------------------------------------------------------
(* get_video_title *)

AlnumAtoms == {"My", "Video"}
TitleSamples == { <<" ", "My", " ", "Video", "!", " ">>, <<"!", " ">> }

\* the titles the metadata endpoint may hold
TitleAtoms == AlnumAtoms \cup {" ", "!", "-", "_"}
Titles == SeqsUpTo(TitleAtoms, MaxTitleLen) \cup TitleSamples

\* c.isalnum() or c in (" ", "-", "_")
Keeps(c) == c \in AlnumAtoms \/ c \in {" ", "-", "_"}

\* str.rstrip()
rstripOne(s) == IF s # <<>> /\ s[Len(s)] = " " THEN SubSeq(s, 1, Len(s) - 1) ELSE s
RECURSIVE rstrip(_)
rstrip(s) == IF s # <<>> /\ s[Len(s)] = " " THEN rstrip(SubSeq(s, 1, Len(s) - 1)) ELSE s

\* lines 26-27
safe_title(t) ==
    LET safe == rstrip(SelectSeq(t, Keeps))
    IN IF safe = <<>> THEN <<"youtube_comments">> ELSE safe

MetaStatuses == {200, 304, 404, 503}
MetaBodies ==
    {NoBody, Body(TRUE, FALSE, << >>, None), Body(TRUE, TRUE, << >>, None)}
    \cup {Body(TRUE, TRUE, <<[title |-> t]>>, None) : t \in TitleSamples}
MetaReplies ==
    {[status |-> st, body |-> b] : st \in MetaStatuses, b \in MetaBodies}
    \cup {NoResponse}

\* the outcome of lines 22-27 for the response r
TitleOutcomeDefault(r) ==
    IF r.status = 0 THEN Raised("RequestException")
    ELSE IF ~r.body.json \/ ~r.body.has_items \/ r.body.items = << >>
    THEN Returned(<<"youtube_comments">>)
    ELSE Returned(safe_title(r.body.items[1].title))
TitleOutcome(r) ==
    IF r.status = 0 THEN Raised("RequestException")
    ELSE IF RaisesForStatus(r.status) THEN [error |-> Err("HTTPError", r.status), id |-> UnsetStr]
    ELSE IF ~r.body.json THEN Raised("JSONDecodeError")
    ELSE IF ~r.body.has_items THEN Raised("KeyError")
    ELSE IF r.body.items = << >> THEN Raised("IndexError")
    ELSE Returned(safe_title(r.body.items[1].title))

----------------------------------------------------------------------------
(* exponential_backoff_request *)

DefaultMaxRetries == 6
BackoffBaseNum == 3      \* backoff_base = 1.5 = 3/2
BackoffBaseDen == 2

RECURSIVE Pow(_, _)
Pow(b, n) == IF n = 0 THEN 1 ELSE b * Pow(b, n - 1)

\* line 35: backoff_base ** attempt + attempt * 0.5, as the fraction <<num, den>>
\*   3^a/2^a + a/2 = (2*3^a + a*2^a) / (2*2^a)
WaitLinear(a) == <<2 * BackoffBaseNum * (a + 1) + a * BackoffBaseDen, 2 * BackoffBaseDen>>
Wait(a) ==
    <<2 * Pow(BackoffBaseNum, a) + a * Pow(BackoffBaseDen, a), 2 * Pow(BackoffBaseDen, a)>>

\* line 34
IsTransient(status) == status \in TransientStatuses

\* line 30: the loop goes on while attempt < max_retries
LoopGoesOnOneMore(a, mr) == a <= mr
LoopGoesOn(a, mr) == a < mr

----------------------------------------------------------------------------
(* The invocation *)

ApiKey == "KEY"

\* lines 43-50
BaseParams(vid) ==
    [part |-> "snippet", videoId |-> vid, key |-> ApiKey, maxResults |-> 100,
     textFormat |-> "plainText", order |-> "time"]

\* lines 57-60
SetToken(p, tok) ==
    [k \in DOMAIN p \cup {"pageToken"} |-> IF k = "pageToken" THEN tok ELSE p[k]]
PopToken(p) == [k \in DOMAIN p \ {"pageToken"} |-> p[k]]
ParamsForStale(p, tok) ==
    IF Truthy(tok)
    THEN (IF "pageToken" \in DOMAIN p THEN p ELSE SetToken(p, tok))
    ELSE PopToken(p)
ParamsFor(p, tok) == IF Truthy(tok) THEN SetToken(p, tok) ELSE PopToken(p)

Fresh(u, p, mr, vid) ==
    /\ url = u
    /\ pc = p
    /\ video_id = vid
    /\ title = UnsetStr
    /\ params = BaseParams(vid)
    /\ comments = << >>
    /\ next_token = None
    /\ page = 0
    /\ max_retries = mr
    /\ attempt = 0
    /\ resp = NoResponse
    /\ error = NoError
    /\ result = << >>
    /\ pages = << >>
    /\ requests = << >>
    /\ statuses = << >>
    /\ sleeps = << >>
    /\ throttles = 0
    /\ title_resp = NoResponse

\* nothing is being classified
NoBatch == records = << >> /\ categories = << >> /\ results = << >>

\* no other invocation runs
NoOther == other = << >>

\* an exception leaves the entry point: nothing is returned
FailSwallow(e) == pc' = "flatten" /\ error' = error
Fail(e) == pc' = "failed" /\ error' = e

\* scrape_comments, line 86
Resolve ==
    /\ pc = "resolve"
    /\ LET r == extract_video_id(url)
       IN IF r.error = NoError
          THEN /\ video_id' = r.id
               /\ pc' = "title"
               /\ error' = error
          ELSE /\ video_id' = video_id
               /\ Fail(r.error)
    /\ UNCHANGED <<url, title, params, comments, next_token, page, max_retries,
                   attempt, resp, result, pages, requests, statuses, sleeps,
                   throttles, title_resp, batch, other>>

\* get_video_title issues its GET and reads the answer, one of `replies`
GetVideoTitleFrom(replies) ==
    /\ pc = "title"
    /\ \E r \in replies :
          /\ requests' = Append(requests, "videos")
          /\ title_resp' = r
          /\ resp' = r
          /\ LET out == TitleOutcome(r)
             IN IF out.error = NoError
                THEN /\ title' = out.id
                     /\ pc' = "fetch_all"
                     /\ error' = error
                ELSE /\ title' = title
                     /\ Fail(out.error)
    /\ UNCHANGED <<url, video_id, params, comments, next_token, page, max_retries,
                   attempt, result, pages, statuses, sleeps, throttles,
                   batch, other>>

\* scrape_comments, line 87
GetVideoTitle == GetVideoTitleFrom(MetaReplies)

\* scrape_comments, line 88: fetch_all_comment_threads starts (lines 42-54)
StartFetchAll ==
    /\ pc = "fetch_all"
    /\ params' = BaseParams(video_id)
    /\ comments' = << >>
    /\ next_token' = None
    /\ page' = 0
    /\ pc' = "page"
    /\ UNCHANGED <<url, video_id, title, max_retries, attempt, resp, error, result,
                   pages, requests, statuses, sleeps, throttles, title_resp, batch, other>>

\* exponential_backoff_request is entered: the loop of line 30 starts, and
\* with max_retries = 0 it ends at once, where line 39 reads the unbound resp
EnterFetchCarry ==
    /\ attempt' = page
    /\ statuses' = << >>
    /\ sleeps' = << >>
    /\ IF LoopGoesOn(page, max_retries)
       THEN pc' = "attempt" /\ error' = error
       ELSE Fail(Err("UnboundLocalError", 0))
EnterFetch ==
    /\ attempt' = 0
    /\ statuses' = << >>
    /\ sleeps' = << >>
    /\ IF LoopGoesOn(0, max_retries)
       THEN pc' = "attempt" /\ error' = error
       ELSE Fail(Err("UnboundLocalError", 0))

\* fetch_all_comment_threads, lines 56-62: the page token is set or removed
\* and the fetch of the page starts
PageRequest ==
    /\ pc = "page"
    /\ params' = ParamsFor(params, next_token)
    /\ EnterFetch
    /\ UNCHANGED <<url, video_id, title, comments, next_token, page, max_retries,
                   resp, result, pages, requests, throttles, title_resp, batch, other>>

\* a direct call of exponential_backoff_request(url, params, max_retries)
CallFetch ==
    /\ pc = "call"
    /\ EnterFetch
    /\ UNCHANGED <<url, video_id, title, params, comments, next_token, page,
                   max_retries, resp, result, pages, requests, throttles,
                   title_resp, batch, other>>

\* lines 30 and 39: the next iteration, or the end of the loop
NextAttempt(r) ==
    IF LoopGoesOn(attempt + 1, max_retries)
    THEN /\ attempt' = attempt + 1
         /\ pc' = pc
         /\ error' = error
    ELSE /\ attempt' = attempt
         /\ Fail(Err("RuntimeError", r.status))

\* line 33 in a direct call: the caller has the response
ReturnDirect(r) ==
    /\ pc' = "returned"
    /\ statuses' = Append(statuses, r.status)
    /\ UNCHANGED <<sleeps, attempt, error, comments, next_token, page, throttles>>

\* line 66
ExtendPrepend(all, items) == items \o all
ExtendOverwrite(all, items) == items
Extend(all, items) == all \o items

\* fetch_all_comment_threads, lines 62-73: the fetch has returned (its locals
\* and the history of that call are gone) and the page is read; the loop ends
\* without a next token, else sleeps 0.1 s and goes round
ReturnPage(r) ==
    /\ attempt' = 0
    /\ statuses' = << >>
    /\ sleeps' = << >>
    /\ IF ~r.body.json
       THEN /\ Fail(Err("JSONDecodeError", 0))
            /\ UNCHANGED <<comments, page, next_token, throttles>>
       ELSE /\ page' = page + 1
            /\ comments' = Extend(comments, r.body.items)
            /\ next_token' = r.body.nextPageToken
            /\ error' = error
            /\ IF Truthy(r.body.nextPageToken)
               THEN throttles' = throttles + 1 /\ pc' = "page"
               ELSE throttles' = throttles /\ pc' = "flatten"

\* line 33: return resp, to the caller of the call
Return(r, ret) ==
    IF ret = "direct" THEN ReturnDirect(r) ELSE ReturnPage(r)

\* lines 31-38: one iteration of the retry loop; the remote answers with one of
\* `replies`, and a 200 returns the response to the caller `ret`
Attempt(replies, ret) ==
    /\ pc = "attempt"
    /\ \E r \in replies :
          /\ requests' = Append(requests, "commentThreads")
          /\ pages' = RemoteAfter(r, PageOfRequest(params))
          /\ IF r.status = 0
             THEN /\ Fail(Err("RequestException", 0))
                  /\ UNCHANGED <<resp, statuses, sleeps, attempt, comments,
                                 next_token, page, throttles>>
             ELSE IF r.status = 200
             THEN /\ resp' = r
                  /\ Return(r, ret)
             ELSE /\ resp' = r
                  /\ statuses' = Append(statuses, r.status)
                  /\ UNCHANGED <<comments, next_token, page, throttles>>
                  /\ IF IsTransient(r.status)
                     THEN /\ sleeps' = Append(sleeps, Wait(attempt))
                          /\ NextAttempt(r)
                     ELSE IF RaisesForStatus(r.status)
                     THEN /\ Fail(Err("HTTPError", r.status))
                          /\ UNCHANGED <<sleeps, attempt>>
                     ELSE /\ sleeps' = sleeps
                          /\ NextAttempt(r)
    /\ UNCHANGED <<url, video_id, title, params, max_retries, result, title_resp, batch, other>>

AttemptPage == Attempt(ListingReplies(params), "fetch_all_comment_threads")
AttemptDirect == Attempt(FetchReplies, "direct")

\* flatten_comment_thread, lines 75-83
flatten_comment_thread_no_default(thread_item) ==
    [text |-> Get(thread_item.textDisplay, None),
     published_at |-> Get(thread_item.publishedAt, None),
     like_count |-> Get(thread_item.likeCount, None),
     reply_count |-> Get(thread_item.totalReplyCount, None)]
flatten_comment_thread(thread_item) ==
    [text |-> Get(thread_item.textDisplay, None),
     published_at |-> Get(thread_item.publishedAt, None),
     like_count |-> Get(thread_item.likeCount, None),
     reply_count |-> Get(thread_item.totalReplyCount, "0")]

FlattenAll(raw) == [i \in 1..Len(raw) |-> flatten_comment_thread(raw[i])]

\* scrape_comments, lines 89-90
Flatten ==
    /\ pc = "flatten"
    /\ result' = << <<title, FlattenAll(comments)>> >>
    /\ pc' = "done"
    /\ UNCHANGED <<url, video_id, title, params, comments, next_token, page,
                   max_retries, attempt, resp, error, pages, requests, statuses,
                   sleeps, throttles, title_resp, batch, other>>

----------------------------------------------------------------------------
(* classifier.py: classify_comment, classify_comments; app.py: the labels *)

\* the pieces a comment text is made of, and the comment texts
WordAtoms ==
    {"?", " ", "not", "good", "BAD", "disagree", "Great", "whatever",
     "superb", "decent", "dull", "awful"}
Texts == SeqsUpTo(WordAtoms, MaxTextLen)

\* str.lower()
lower(s) ==
    [i \in 1..Len(s) |->
        CASE s[i] = "BAD" -> "bad" [] s[i] = "Great" -> "great" [] OTHER -> s[i]]

\* the lower-case atoms that have `word` as a substring
AtomsWith(word) ==
    CASE word = "?" -> {"?"}
      [] word = "bad" -> {"bad"}
      [] word = "hate" -> {"whatever"}
      [] word = "disagree" -> {"disagree"}
      [] word = "good" -> {"good"}
      [] word = "agree" -> {"disagree"}
      [] word = "great" -> {"great"}
      [] OTHER -> {}

\* word in text: the substring test; "not good" spans three atoms
In(word, text) ==
    IF word = "not good"
    THEN \E i \in 1..(Len(text) - 2) : SubSeq(text, i, i + 2) = <<"not", " ", "good">>
    ELSE \E i \in 1..Len(text) : text[i] \in AtomsWith(word)

\* lines 8 and 10
NegativeWords == {"bad", "worst", "hate", "not good", "terrible", "disagree"}
PositiveWords == {"good", "love", "nice", "amazing", "agree", "great", "awesome"}

\* TextBlob(comment).sentiment.polarity as the fraction <<sum, n>> of
\* hundredths.  The library is no part of the repository: its polarity is a
\* function of the text, here the mean of the polarities of the words the
\* sentiment lexicon knows (0.0 when there is none).
WordPolarity(w) ==
    CASE w = "superb" -> 100 [] w = "decent" -> 20
      [] w = "dull" -> -20 [] w = "awful" -> -100 [] OTHER -> 0
RECURSIVE SumPolarity(_)
SumPolarity(s) == IF s = << >> THEN 0 ELSE WordPolarity(s[1]) + SumPolarity(Tail(s))
polarity(comment) ==
    LET n == Len(SelectSeq(comment, LAMBDA w : WordPolarity(w) # 0))
    IN <<SumPolarity(comment), IF n = 0 THEN 1 ELSE n>>

\* 0.2 in hundredths (lines 14 and 16)
Threshold == 20

\* lines 14-19
SentimentInclusive(p) ==
    IF p[1] >= Threshold * p[2] THEN "affirmative"
    ELSE IF p[1] <= (-Threshold) * p[2] THEN "criticism"
    ELSE "neutral"
Sentiment(p) ==
    IF p[1] > Threshold * p[2] THEN "affirmative"
    ELSE IF p[1] < (-Threshold) * p[2] THEN "criticism"
    ELSE "neutral"

\* classify_comment, lines 4-19
classify_comment_positive_first(comment) ==
    LET text == lower(comment)
    IN IF In("?", text) THEN "question"
       ELSE IF \E word \in PositiveWords : In(word, text) THEN "affirmative"
       ELSE IF \E word \in NegativeWords : In(word, text) THEN "criticism"
       ELSE Sentiment(polarity(comment))
classify_comment(comment) ==
    LET text == lower(comment)
    IN IF In("?", text) THEN "question"
       ELSE IF \E word \in NegativeWords : In(word, text) THEN "criticism"
       ELSE IF \E word \in PositiveWords : In(word, text) THEN "affirmative"
       ELSE Sentiment(polarity(comment))

\* Series.astype(str) on the optional text: None becomes the string 'None'
astype_str(field) == IF field = << >> THEN <<"None">> ELSE field[1]

\* app.py, lines 53-61: the label of a category
AppLabelCapitalized(category) ==
    CASE category = "question" -> "Question"
      [] category = "criticism" -> "Criticism"
      [] category = "affirmative" -> "Affirmative"
      [] OTHER -> "Neutral"
AppLabel(category) ==
    CASE category = "question" -> "Question"
      [] category = "criticism" -> "Criticism"
      [] category \in {"affirmative", "affirmation"} -> "Affirmation"
      [] OTHER -> "Other"

\* the variables of the scrape, all but pc
scrape ==
    <<url, video_id, title, params, comments, next_token, page, max_retries,
      attempt, resp, error, result, pages, requests, statuses, sleeps,
      throttles, title_resp>>

\* classify_comments, line 23: apply classifies the next row of the column
ClassifyRow ==
    /\ pc = "classify"
    /\ LET i == Len(categories) + 1
       IN /\ categories' =
                Append(categories, classify_comment(astype_str(records[i].text)))
          /\ pc' = IF i = Len(records) THEN "label" ELSE "classify"
    /\ UNCHANGED <<scrape, records, results, other>>

\* app.py, lines 52-63: the next item gets its label and loses its category
LabelItem ==
    /\ pc = "label"
    /\ LET i == Len(results) + 1
       IN /\ results' =
                Append(results, [text |-> records[i].text,
                                 label |-> AppLabel(categories[i])])
          /\ pc' = IF i = Len(records) THEN "classified" ELSE "label"
    /\ UNCHANGED <<scrape, records, categories, other>>

----------------------------------------------------------------------------
(* Specifications *)

SampleURL ==
    [scheme |-> "https", host |-> "youtu.be", path |-> <<Sep, "ID">>, query |-> << >>]

\* the URLs of the runs of scrape_comments
ScrapeURLs ==
    {SampleURL,
     [scheme |-> "https", host |-> "youtu.be", path |-> <<Sep>>, query |-> << >>],
     [scheme |-> "https", host |-> "music.youtube.com", path |-> <<Sep, "ID">>,
      query |-> << >>]}

\* scrape_comments(api_key, video_url)
Init ==
    /\ \E u \in ScrapeURLs : Fresh(u, "resolve", DefaultMaxRetries, UnsetStr)
    /\ NoBatch /\ NoOther
Next ==
    \/ Resolve
    \/ GetVideoTitle
    \/ StartFetchAll
    \/ PageRequest
    \/ AttemptPage
    \/ Flatten
Spec == Init /\ [][Next]_vars

\* the invocation is never suspended for ever: every request is answered and
\* every sleep ends
FairSpec == Spec /\ WF_vars(Next)

\* fetch_all_comment_threads(api_key, video_id) against a remote that answers
\* every page request with a 200 and a page
OkReplies(p) == {[status |-> 200, body |-> b] : b \in ListingBodies(PageOfRequest(p))}
AttemptOk == Attempt(OkReplies(params), "fetch_all_comment_threads")

\* line 73
ReturnComments ==
    /\ pc = "flatten"
    /\ result' = <<comments>>
    /\ pc' = "done"
    /\ UNCHANGED <<url, video_id, title, params, comments, next_token, page,
                   max_retries, attempt, resp, error, pages, requests, statuses,
                   sleeps, throttles, title_resp, batch, other>>

InitPages ==
    /\ \E vid \in {<<"ID">>, << >>} : Fresh(SampleURL, "fetch_all", DefaultMaxRetries, vid)
    /\ NoBatch /\ NoOther
NextPages ==
    \/ StartFetchAll
    \/ PageRequest
    \/ AttemptOk
    \/ ReturnComments
SpecPages == InitPages /\ [][NextPages]_vars
FairSpecPages == SpecPages /\ WF_vars(NextPages)

\* get_video_title(api_key, video_id) against a remote that answers 200 with
\* one item, of any title of the model
TitleReplies ==
    {[status |-> 200, body |-> Body(TRUE, TRUE, <<[title |-> t]>>, None)] : t \in Titles}
GetVideoTitleAny == GetVideoTitleFrom(TitleReplies)
InitTitle == Fresh(SampleURL, "title", DefaultMaxRetries, <<"ID">>) /\ NoBatch /\ NoOther
NextTitle == GetVideoTitleAny
SpecTitle == InitTitle /\ [][NextTitle]_vars

\* extract_video_id(youtube_url) over the URLs of the model
InitResolve ==
    /\ \E u \in URLs : Fresh(u, "resolve", DefaultMaxRetries, UnsetStr)
    /\ NoBatch /\ NoOther
NextResolve == Resolve
SpecResolve == InitResolve /\ [][NextResolve]_vars

\* exponential_backoff_request(url, params, max_retries)
InitFetch ==
    /\ \E mr \in 0..MaxRetriesArg : Fresh(SampleURL, "call", mr, <<"ID">>)
    /\ NoBatch /\ NoOther
NextFetch ==
    \/ CallFetch
    \/ AttemptDirect
SpecFetch == InitFetch /\ [][NextFetch]_vars

\* app.py, lines 45-63, on a non-empty list of records: one record of any
\* text, or two records of a few texts (the text may be absent or empty)
TextFields == {<< >>} \cup {<<t>> : t \in Texts}
PairFields == {<< >>, << << >> >>, << <<"BAD">> >>, << <<"decent">> >>}
Batches ==
    {<<[text |-> f]>> : f \in TextFields}
    \cup {<<[text |-> f], [text |-> g]>> : f \in PairFields, g \in PairFields}
InitClassify ==
    /\ Fresh(SampleURL, "classify", DefaultMaxRetries, <<"ID">>)
    /\ records \in Batches
    /\ categories = << >>
    /\ results = << >>
    /\ NoOther
NextClassify ==
    \/ ClassifyRow
    \/ LabelItem
SpecClassify == InitClassify /\ [][NextClassify]_vars

\* scrape_comments from fetch_all_comment_threads on, against a remote that
\* holds one page of one item with the nested snippet structure, each of
\* whose fields is absent, null or a value
ItemShapes ==
    {[id |-> <<1, 1>>, textDisplay |-> a, publishedAt |-> b, likeCount |-> c,
      totalReplyCount |-> d] :
        a \in {<< >>, <<None>>, <<"">>, <<"text">>},
        b \in {<< >>, <<None>>, <<Stamps[1][1]>>},
        c \in {<< >>, <<None>>, <<"0">>, <<"5">>},
        d \in {<< >>, <<None>>, <<"0">>, <<"1">>}}
ItemReplies == {[status |-> 200, body |-> Body(TRUE, TRUE, <<it>>, None)] : it \in ItemShapes}
AttemptItem == Attempt(ItemReplies, "fetch_all_comment_threads")
InitFlatten ==
    /\ Fresh(SampleURL, "fetch_all", DefaultMaxRetries, <<"ID">>)
    /\ NoBatch /\ NoOther
NextFlatten ==
    \/ StartFetchAll
    \/ PageRequest
    \/ AttemptItem
    \/ Flatten
SpecFlatten == InitFlatten /\ [][NextFlatten]_vars

\* Two invocations of scrape_comments of the same video in parallel: one
\* runs, the other waits in `other`; Switch hands the processor over at any
\* step.  What an invocation keeps in its frame (arguments and locals, with
\* the history of its own calls) goes with it; the remote's pages stay.
Frame ==
    [url |-> url, pc |-> pc, video_id |-> video_id, title |-> title,
     params |-> params, comments |-> comments, next_token |-> next_token,
     page |-> page, max_retries |-> max_retries, attempt |-> attempt,
     resp |-> resp, error |-> error, result |-> result, requests |-> requests,
     statuses |-> statuses, sleeps |-> sleeps, throttles |-> throttles,
     title_resp |-> title_resp]
SwitchSharedParams ==
    /\ other' = Frame
    /\ url' = other.url
    /\ pc' = other.pc
    /\ video_id' = other.video_id
    /\ title' = other.title
    /\ comments' = other.comments
    /\ page' = other.page
    /\ max_retries' = other.max_retries
    /\ attempt' = other.attempt
    /\ resp' = other.resp
    /\ error' = other.error
    /\ result' = other.result
    /\ requests' = other.requests
    /\ statuses' = other.statuses
    /\ sleeps' = other.sleeps
    /\ throttles' = other.throttles
    /\ title_resp' = other.title_resp
    /\ UNCHANGED <<params, next_token, pages, batch>>
Switch ==
    /\ other' = Frame
    /\ url' = other.url
    /\ pc' = other.pc
    /\ video_id' = other.video_id
    /\ title' = other.title
    /\ params' = other.params
    /\ comments' = other.comments
    /\ next_token' = other.next_token
    /\ page' = other.page
    /\ max_retries' = other.max_retries
    /\ attempt' = other.attempt
    /\ resp' = other.resp
    /\ error' = other.error
    /\ result' = other.result
    /\ requests' = other.requests
    /\ statuses' = other.statuses
    /\ sleeps' = other.sleeps
    /\ throttles' = other.throttles
    /\ title_resp' = other.title_resp
    /\ UNCHANGED <<pages, batch>>

\* the remote answers the metadata GET with the title, and a comment-listing
\* GET with the page asked for (one item on an odd page, MaxItems on an even
\* one; the last page is any of the first MaxPages) or with 429
TitleOk == {[status |-> 200, body |-> Body(TRUE, TRUE, <<[title |-> <<"My">>]>>, None)]}
GetVideoTitleOk == GetVideoTitleFrom(TitleOk)
BusyBodies(k) ==
    IF k <= Len(pages)
    THEN {pages[k]}
    ELSE {Body(TRUE, TRUE,
               [i \in 1..(IF k % 2 = 1 THEN 1 ELSE MaxItems) |-> RawItem(k, i)], t) :
             t \in TokensOf(k) \ {""}}
BusyReplies(p) ==
    {[status |-> 200, body |-> b] : b \in BusyBodies(PageOfRequest(p))}
    \cup (IF Len(statuses) < MaxBusy THEN {[status |-> 429, body |-> NoBody]} ELSE {})
AttemptBusy == Attempt(BusyReplies(params), "fetch_all_comment_threads")
SecondURL ==
    [scheme |-> "https", host |-> "YOUTU.BE", path |-> <<Sep, "ID">>, query |-> << >>]
InitParallel ==
    /\ Fresh(SampleURL, "resolve", DefaultMaxRetries, UnsetStr)
    /\ NoBatch
    /\ other = [Frame EXCEPT !.url = SecondURL]
NextParallel ==
    \/ Resolve
    \/ GetVideoTitleOk
    \/ StartFetchAll
    \/ PageRequest
    \/ AttemptBusy
    \/ Flatten
    \/ Switch
SpecParallel == InitParallel /\ [][NextParallel]_vars

----------------------------------------------------------------------------
(* Properties of fetch_all_comment_threads, under FairSpecPages *)

\* the items of the pages the remote served, in page order
RECURSIVE AllItems(_)
AllItems(ps) == IF ps = << >> THEN << >> ELSE ps[1].items \o AllItems(Tail(ps))

\* the remote has served its last page: the one without a next token
RemoteExhausted == pages # << >> /\ ~Truthy(pages[Len(pages)].nextPageToken)

C1_Returned ==
    pc = "done" =>
        /\ error = NoError
        /\ RemoteExhausted
        /\ \A k \in 1..(Len(pages) - 1) : Truthy(pages[k].nextPageToken)
        /\ Len(requests) = Len(pages)
        /\ result = <<AllItems(pages)>>

\* C1: against a remote that answers every page request with a page, all
\* pages but the last carrying a next token, fetch_all_comment_threads
\* terminates, has issued exactly one request per page and none after the
\* page without a token, and returns the items of all pages in arrival order
\* (the empty sequence, not an error, for one page without token and items).
C1_PaginationTerminates == <>(pc = "done") /\ []C1_Returned

\* C1 witness: three pages A -> B -> C -> (none) were fetched and returned,
\* the first with one item and the second with two.
C1_Witness ==
    /\ pc = "done"
    /\ Len(pages) = 3
    /\ Len(pages[1].items) = 1
    /\ Len(pages[2].items) = 2
    /\ Len(requests) = 3
    /\ Len(result[1]) >= 3

----------------------------------------------------------------------------
(* Properties of exponential_backoff_request, under SpecFetch *)

AllTransient(sts) == \A i \in DOMAIN sts : sts[i] \in {403, 429, 500, 503}

\* x is the fraction 1.5^a + a * 0.5
IsBackoffTerm(x, a) == x[1] * 2 * Pow(2, a) = (2 * Pow(3, a) + a * Pow(2, a)) * x[2]

\* C2: when the first k responses (0 <= k < max_retries) are transient and
\* response k+1 is a 200, the call returns that response having issued exactly
\* k+1 requests, and its sleeps are exactly the k terms 1.5^attempt +
\* attempt*0.5 for attempt = 0..k-1, in that order (none after the 200).
C2_SucceedsAfterTransient ==
    (/\ statuses # << >>
     /\ statuses[Len(statuses)] = 200
     /\ AllTransient(SubSeq(statuses, 1, Len(statuses) - 1))
     /\ Len(statuses) <= max_retries) =>
        /\ pc = "returned"
        /\ error = NoError
        /\ resp.status = 200
        /\ Len(requests) = Len(statuses)
        /\ Len(sleeps) = Len(statuses) - 1
        /\ \A a \in 0..(Len(statuses) - 2) : IsBackoffTerm(sleeps[a + 1], a)

\* C2 witness: 429, 429, then 200: returned on the third attempt after the
\* sleeps 1 and 2.
C2_Witness ==
    /\ pc = "returned"
    /\ statuses = <<429, 429, 200>>
    /\ sleeps = <<Wait(0), Wait(1)>>
    /\ Len(requests) = 3

\* every request of the call was answered (none raised)
AllAnswered == Len(requests) = Len(statuses)

\* C3: with max_retries >= 1 and only transient responses, the call issues
\* exactly max_retries requests and then fails with RuntimeError
\* (RetriesExhausted) carrying the status of the last response, an error of
\* another kind than the HTTPError (RemoteAPIError) of a hard failure.
C3_RetriesExhausted ==
    (max_retries >= 1 /\ AllAnswered /\ AllTransient(statuses)) =>
        /\ Len(requests) <= max_retries
        /\ Len(requests) < max_retries => pc \in {"call", "attempt"}
        /\ Len(requests) = max_retries =>
              /\ pc = "failed"
              /\ error = Err("RuntimeError", statuses[Len(statuses)])
              /\ error.kind # "HTTPError"

\* C3 witness: six transient responses, the last of another status than the
\* first, exhausted the default budget.
C3_Witness ==
    /\ pc = "failed"
    /\ max_retries = 6
    /\ Len(requests) = 6
    /\ Len(statuses) = 6
    /\ AllTransient(statuses)
    /\ statuses[1] = 500
    /\ statuses[6] = 403
    /\ error = Err("RuntimeError", 403)

\* C4: a response whose status is neither 200 nor transient, at whatever
\* attempt it arrives, makes the call fail at once with HTTPError
\* (RemoteAPIError) carrying that status: no further request, no sleep.
C4_HardFailureImmediate ==
    \A i \in DOMAIN statuses :
        statuses[i] \notin {200, 403, 429, 500, 503} =>
            /\ i = Len(statuses)
            /\ pc = "failed"
            /\ error = Err("HTTPError", statuses[i])
            /\ Len(requests) = i
            /\ Len(sleeps) = Cardinality({j \in 1..(i-1) : statuses[j] \in {403, 429, 500, 503}})

----------------------------------------------------------------------------
(* Properties of scrape_comments, under Spec *)

\* get_video_title raised on the answer to its GET
MetaLookupFailed ==
    /\ requests # << >>
    /\ \/ title_resp.status = 0
       \/ title_resp.status >= 400
       \/ ~title_resp.body.json
       \/ ~title_resp.body.has_items
       \/ title_resp.body.items = << >>

\* C5: scrape_comments is all-or-nothing: it either returns (title, records)
\* with the records of every page up to the one without a next token, or it
\* fails with the first error raised and stops there, returning nothing: not
\* the items of the pages fetched before the failure, and no default value.
C5_AllOrNothing ==
    /\ pc = "failed" => (error # NoError /\ result = << >> /\ ~ENABLED Next)
    /\ error # NoError => pc = "failed"
    /\ result # << >> => pc = "done"
    /\ pc = "done" =>
          /\ error = NoError
          /\ ~MetaLookupFailed
          /\ title # UnsetStr
          /\ RemoteExhausted
          /\ result = << <<title, FlattenAll(AllItems(pages))>> >>

\* C5 witness: the fetch of the third page failed after two pages with items
\* were accumulated, and nothing was returned.
C5_Witness ==
    /\ pc = "failed"
    /\ page = 2
    /\ Len(comments) >= 3
    /\ error.kind = "HTTPError"
    /\ result = << >>

\* C6: the steps of scrape_comments happen in the order resolve, fetch title,
\* fetch all pages, flatten: a GET is issued only after the URL resolved, the
\* one metadata GET comes before every comment-listing GET, no comment-listing
\* GET is issued when the metadata lookup failed, and the result is assembled
\* after the last page was fetched.
C6_StepOrder ==
    /\ requests # << >> =>
          /\ video_id # UnsetStr
          /\ extract_video_id(url).error = NoError
          /\ requests[1] = "videos"
    /\ \A i \in 2..Len(requests) : requests[i] = "commentThreads"
    /\ MetaLookupFailed => Len(requests) = 1
    /\ Len(requests) >= 2 => title # UnsetStr
    /\ result # << >> => (Len(requests) >= 2 /\ RemoteExhausted)

\* C6 witness: a run that resolved, fetched the title, fetched two pages with
\* a retry, and returned.
C6_Witness ==
    /\ pc = "done"
    /\ Len(pages) = 2
    /\ Len(requests) = 4
    /\ requests[1] = "videos"
    /\ title = <<" ", "My", " ", "Video">>

----------------------------------------------------------------------------
(* Properties of extract_video_id, under SpecResolve *)

UrlHasHost(u) == u.scheme # ""
UrlShortLink(u) == UrlHasHost(u) /\ Lower(u.host) \in ShortHosts
UrlCanonical(u) == UrlHasHost(u) /\ Lower(u.host) \in CanonicalHosts

\* the positions of the query pairs that name a video id
UrlVideoParams(u) == {i \in DOMAIN u.query : u.query[i][1] = "v" /\ u.query[i][2] # <<>>}

\* position i of the path holds a whole segment equal to the marker
UrlMarkerAt(u, i) ==
    /\ i \in DOMAIN u.path
    /\ u.path[i] = "shorts"
    /\ (i = 1 \/ u.path[i-1] = Sep)
    /\ (i = Len(u.path) \/ u.path[i+1] = Sep)
UrlHasMarker(u) == \E i \in DOMAIN u.path : UrlMarkerAt(u, i)

\* s is t without its leading separators
StrippedOf(s, t) ==
    \E k \in 0..Len(t) :
        /\ \A i \in 1..k : t[i] = Sep
        /\ s = SubSeq(t, k+1, Len(t))
        /\ (s = <<>> \/ s[1] # Sep)

ResolveReturned == pc = "title"
ResolveRaisedInvalidURL == pc = "failed" /\ error.kind = "ValueError"

\* C7: every supported URL shape resolves to its exact identifier (short-link
\* host: the path without its leading separators; canonical host with a
\* video-id query parameter: the value of that parameter, whatever the path),
\* and a URL of another host, or of a canonical host with neither a video-id
\* parameter nor a marker segment, raises ValueError (InvalidURL).
C7_ResolveShapes ==
    pc # "resolve" =>
        /\ UrlShortLink(url) =>
              ResolveReturned /\ StrippedOf(video_id, url.path)
        /\ (UrlCanonical(url) /\ UrlVideoParams(url) # {}) =>
              /\ ResolveReturned
              /\ \E i \in UrlVideoParams(url) :
                    /\ \A j \in UrlVideoParams(url) : i <= j
                    /\ video_id = url.query[i][2]
        /\ (~UrlShortLink(url) /\ ~UrlCanonical(url)) => ResolveRaisedInvalidURL
        /\ (UrlCanonical(url) /\ UrlVideoParams(url) = {} /\ ~UrlHasMarker(url)) =>
              ResolveRaisedInvalidURL

\* C7 witness: a mobile-host URL with both a video-id parameter and a marker
\* segment in its path was resolved.
C7_Witness ==
    /\ ResolveReturned
    /\ url.host = "m.youtube.com"
    /\ UrlVideoParams(url) # {}
    /\ UrlHasMarker(url)
    /\ video_id = <<"ID">>

\* the segment that follows the marker at position i (i+1 holds a separator)
SegmentAfter(u, i) ==
    LET rest == SubSeq(u.path, i+2, Len(u.path))
        stop == IF \E j \in DOMAIN rest : rest[j] = Sep
                THEN CHOOSE j \in DOMAIN rest :
                         rest[j] = Sep /\ \A k \in 1..(j-1) : rest[k] # Sep
                ELSE Len(rest) + 1
    IN SubSeq(rest, 1, stop - 1)

\* C8: a canonical-host URL without a video-id parameter whose path has the
\* marker segment followed by another segment resolves to the segment right
\* after the (first) marker, whatever comes after that segment.
C8_SegmentAfterMarker ==
    (pc # "resolve" /\ UrlCanonical(url) /\ UrlVideoParams(url) = {}) =>
        \A i \in DOMAIN url.path :
            (/\ UrlMarkerAt(url, i)
             /\ \A j \in 1..(i-1) : ~UrlMarkerAt(url, j)
             /\ i < Len(url.path)) =>
                ResolveReturned /\ video_id = SegmentAfter(url, i)

\* C9: extract_video_id either returns a non-empty identifier or raises
\* ValueError (InvalidURL); it never returns an empty identifier.
C9_NeverEmptyIdentifier ==
    pc # "resolve" =>
        \/ ResolveRaisedInvalidURL
        \/ ResolveReturned /\ video_id # <<>>

----------------------------------------------------------------------------
(* Properties of get_video_title, under Spec *)

MetaAnswered == requests # << >> /\ title_resp.status # 0

\* C10: get_video_title issues exactly one GET and never retries; it fails
\* with HTTPError (RemoteAPIError) carrying the status for every non-2xx
\* response, and with an error of another kind than HTTPError and ValueError
\* (NotFound) when a successful response has zero items; the scrape aborts in
\* all these cases.
C10_TitleFailures ==
    /\ Cardinality({i \in DOMAIN requests : requests[i] = "videos"}) <= 1
    /\ (MetaAnswered /\ ~(200 <= title_resp.status /\ title_resp.status <= 299)) =>
          /\ pc = "failed"
          /\ error = Err("HTTPError", title_resp.status)
          /\ Len(requests) = 1
    /\ (/\ MetaAnswered
        /\ 200 <= title_resp.status /\ title_resp.status <= 299
        /\ title_resp.body.json
        /\ title_resp.body.has_items
        /\ title_resp.body.items = << >>) =>
          /\ pc = "failed"
          /\ error.kind \notin {"", "HTTPError", "ValueError"}
          /\ Len(requests) = 1

----------------------------------------------------------------------------
(* Properties of the title, under SpecTitle *)

\* t is s without its leading and trailing blanks
TrimmedOf(t, s) ==
    \E a \in 0..Len(s), b \in 0..Len(s) :
        /\ a <= b
        /\ \A i \in 1..a : s[i] = " "
        /\ \A i \in (b+1)..Len(s) : s[i] = " "
        /\ t = SubSeq(s, a + 1, b)
        /\ (t = << >> \/ (t[1] # " " /\ t[Len(t)] # " "))

\* the API title without the characters that are neither alphanumeric nor
\* blank, hyphen or underscore
OnlySafeChars(raw) ==
    SelectSeq(raw, LAMBDA c : c \in {"My", "Video", " ", "-", "_"})

\* C11: the title get_video_title returns is the API title without the
\* characters outside {alphanumeric, space, hyphen, underscore} and with its
\* whitespace trimmed (' My Video! ' gives 'My Video'), and it is never empty:
\* an empty outcome is replaced by the fallback literal.
C11_SanitizedTitle ==
    pc = "fetch_all" =>
        LET raw == title_resp.body.items[1].title
        IN /\ title # << >>
           /\ \/ TrimmedOf(title, OnlySafeChars(raw))
              \/ TrimmedOf(<< >>, OnlySafeChars(raw)) /\ title = <<"youtube_comments">>
           /\ raw = <<" ", "My", " ", "Video", "!", " ">> => title = <<"My", " ", "Video">>

\* t is s without its trailing blanks
RightTrimmedOf(t, s) ==
    \E b \in 0..Len(s) :
        /\ \A i \in (b+1)..Len(s) : s[i] = " "
        /\ t = SubSeq(s, 1, b)
        /\ (t = << >> \/ t[Len(t)] # " ")

\* C11, amended: the title get_video_title returns is the API title without
\* the characters outside {alphanumeric, space, hyphen, underscore} and with
\* its trailing whitespace only trimmed (' My Video! ' gives ' My Video', the
\* leading blank kept), and it is never empty: an empty outcome is replaced
\* by the fallback literal.
C11_TrailingTrimmed ==
    pc = "fetch_all" =>
        LET raw == title_resp.body.items[1].title
        IN /\ title # << >>
           /\ \/ RightTrimmedOf(title, OnlySafeChars(raw))
              \/ RightTrimmedOf(<< >>, OnlySafeChars(raw)) /\ title = <<"youtube_comments">>
           /\ raw = <<" ", "My", " ", "Video", "!", " ">>
                  => title = <<" ", "My", " ", "Video">>

\* the title ' My Video! ' has been sanitized
C11_Witness ==
    /\ pc = "fetch_all"
    /\ title_resp.body.items # << >>
    /\ title_resp.body.items[1].title = <<" ", "My", " ", "Video", "!", " ">>
    /\ title = <<" ", "My", " ", "Video">>

----------------------------------------------------------------------------
(* Properties of the records scrape_comments returns, under Spec *)

\* the number of items on the pages before page k
RECURSIVE ItemsBefore(_)
ItemsBefore(k) == IF k <= 1 THEN 0 ELSE ItemsBefore(k - 1) + Len(pages[k-1].items)

\* C12: on success scrape_comments returns exactly one record per raw item
\* received across all pages, and the record at the item's arrival position
\* is the flattening of that item: nothing is re-sorted, dropped or
\* duplicated.
C12_OneRecordPerItem ==
    pc = "done" =>
        LET recs == result[1][2]
        IN /\ Len(recs) = ItemsBefore(Len(pages) + 1)
           /\ \A k \in 1..Len(pages) : \A j \in 1..Len(pages[k].items) :
                 LET rec == recs[ItemsBefore(k) + j]
                 IN /\ rec.published_at = Stamps[k][j]
                    /\ rec = flatten_comment_thread(pages[k].items[j])
           /\ \A a, b \in 1..Len(recs) :
                 a # b => recs[a].published_at # recs[b].published_at

\* C12 witness: a two-page listing with 1 and 2 items gave 3 records
C12_Witness ==
    /\ pc = "done"
    /\ Len(pages) = 2
    /\ Len(pages[1].items) = 1
    /\ Len(pages[2].items) = 2
    /\ Len(result[1][2]) = 3
    /\ result[1][2][3].published_at = "2024-01-02T00:00:02Z"

----------------------------------------------------------------------------
(* Properties of the classification, under SpecClassify *)

\* the text of item i as the classifier reads it
TextOf(i) == IF records[i].text = << >> THEN <<"None">> ELSE records[i].text[1]

\* the text holds a question mark
HasQuestionMark(t) == \E i \in DOMAIN t : t[i] = "?"

\* the text holds, in any case, one of the words bad, worst, hate, not good,
\* terrible, disagree ("whatever" holds "hate")
HasNegative(t) ==
    \/ \E i \in DOMAIN t : t[i] \in {"BAD", "disagree", "whatever"}
    \/ \E i \in DOMAIN t :
          i + 2 <= Len(t) /\ t[i] = "not" /\ t[i+1] = " " /\ t[i+2] = "good"

\* the text holds, in any case, one of the words good, love, nice, amazing,
\* agree, great, awesome
HasPositive(t) == \E i \in DOMAIN t : t[i] \in {"good", "Great", "disagree"}

\* C13: the rules apply in a fixed order, first match wins: a text with a
\* question mark is labelled Question whatever keywords it holds; a text
\* without one that holds a negative keyword is labelled Criticism even when
\* it holds a positive keyword too ('disagree' holds 'agree', 'not good'
\* holds 'good'); the positive keywords give Affirmation only to a text with
\* no question mark and no negative keyword.
C13_RulePrecedence ==
    \A i \in 1..Len(results) :
        LET t == TextOf(i)
            label == results[i].label
        IN /\ HasQuestionMark(t) => label = "Question"
           /\ (~HasQuestionMark(t) /\ HasNegative(t)) => label = "Criticism"
           /\ (~HasQuestionMark(t) /\ ~HasNegative(t) /\ HasPositive(t))
                 => label = "Affirmation"

\* C13 witness: 'not good' was labelled Criticism
C13_Witness ==
    /\ Len(results) = 1
    /\ results[1].text = << <<"not", " ", "good">> >>
    /\ results[1].label = "Criticism"

\* the polarity of the text in hundredths is above, resp. below, c
PolarityAbove(t, c) == SumPolarity(t) > c * polarity(t)[2]
PolarityBelow(t, c) == SumPolarity(t) < c * polarity(t)[2]

\* C14: the polarity decides the label only of a text with no question mark
\* and no keyword: above 0.2 it gives Affirmation, below -0.2 Criticism, and
\* from -0.2 to 0.2, both included, Other; the label of a text that a
\* punctuation or keyword rule matches is the rule's, whatever the polarity.
C14_PolarityFallback ==
    \A i \in 1..Len(results) :
        LET t == TextOf(i)
            label == results[i].label
        IN IF ~HasQuestionMark(t) /\ ~HasNegative(t) /\ ~HasPositive(t)
           THEN /\ PolarityAbove(t, 20) => label = "Affirmation"
                /\ PolarityBelow(t, -20) => label = "Criticism"
                /\ (~PolarityAbove(t, 20) /\ ~PolarityBelow(t, -20)) => label = "Other"
           ELSE /\ PolarityAbove(t, 20) =>
                     label = IF HasQuestionMark(t) THEN "Question"
                             ELSE IF HasNegative(t) THEN "Criticism" ELSE "Affirmation"
                /\ PolarityBelow(t, -20) =>
                     label = IF HasQuestionMark(t) THEN "Question"
                             ELSE IF HasNegative(t) THEN "Criticism" ELSE "Affirmation"

\* C14 witness: a text of polarity exactly 0.2 was labelled Other
C14_Witness ==
    /\ Len(results) = 1
    /\ results[1].text = << <<"decent", " ", "decent">> >>
    /\ results[1].label = "Other"

----------------------------------------------------------------------------
(* Properties of flatten_comment_thread, under SpecFlatten *)

\* C16: the record of a raw item with the nested snippet structure has
\* exactly the fields text, published_at, like_count and reply_count: an
\* absent totalReplyCount gives reply_count = 0, an absent likeCount or
\* textDisplay gives an explicit null, and a value that is present is copied
\* unchanged.
C16_FlattenFields ==
    pc = "done" =>
        /\ Len(result[1][2]) = Len(comments)
        /\ \A i \in 1..Len(comments) :
              LET item == comments[i]
                  rec == result[1][2][i]
              IN /\ DOMAIN rec = {"text", "published_at", "like_count", "reply_count"}
                 /\ item.totalReplyCount = << >> => rec.reply_count = "0"
                 /\ item.likeCount = << >> => rec.like_count = "None"
                 /\ item.textDisplay = << >> => rec.text = "None"
                 /\ item.publishedAt = << >> => rec.published_at = "None"
                 /\ item.totalReplyCount # << >> => rec.reply_count = item.totalReplyCount[1]
                 /\ item.likeCount # << >> => rec.like_count = item.likeCount[1]
                 /\ item.textDisplay # << >> => rec.text = item.textDisplay[1]
                 /\ item.publishedAt # << >> => rec.published_at = item.publishedAt[1]

\* C16 witness: an item with a text but neither likeCount nor totalReplyCount
\* was flattened
C16_Witness ==
    /\ pc = "done"
    /\ Len(comments) = 1
    /\ comments[1].totalReplyCount = << >>
    /\ comments[1].likeCount = << >>
    /\ comments[1].textDisplay = <<"text">>
    /\ result[1][2][1].reply_count = "0"
    /\ result[1][2][1].text = "text"

----------------------------------------------------------------------------
(* Properties of the requests of fetch_all_comment_threads, under Spec *)

\* C18: the first page request carries no pageToken; every later one, each
\* of its retries included, carries the nextPageToken of the last page
\* received, never the token of an earlier page; the other parameters (part,
\* videoId, key, maxResults = 100, textFormat, order = time) are the same in
\* all requests of the invocation.
C18_PageTokenOfLastPage ==
    pc = "attempt" =>
        /\ page = 0 => DOMAIN params = {"part", "videoId", "key", "maxResults",
                                       "textFormat", "order"}
        /\ page >= 1 =>
              /\ DOMAIN params = {"part", "videoId", "key", "maxResults",
                                  "textFormat", "order", "pageToken"}
              /\ page = Len(pages)
              /\ params["pageToken"] = pages[page].nextPageToken
              /\ \A k \in 1..(page - 1) :
                    params["pageToken"] # pages[k].nextPageToken
        /\ params["part"] = "snippet"
        /\ params["videoId"] = video_id
        /\ params["key"] = "KEY"
        /\ params["maxResults"] = 100
        /\ params["textFormat"] = "plainText"
        /\ params["order"] = "time"

\* C18 witness: the request of the third page is being retried with the
\* token of the second page
C18_Witness ==
    /\ pc = "attempt"
    /\ page = 2
    /\ attempt >= 1
    /\ pages[1].nextPageToken = "A"
    /\ pages[2].nextPageToken = "B"
    /\ params["pageToken"] = "B"

\* the comment-listing GETs issued so far
ListingRequests == Len(SelectSeq(requests, LAMBDA e : e = "commentThreads"))

\* C19: the retry budget is per request: a fetch call issues at most
\* max_retries requests, the fetch of each page starts at attempt index 0
\* with the full budget whatever the earlier pages consumed, and a scrape of
\* n pages issues at most n * max_retries comment-listing requests.
C19_BudgetPerRequest ==
    /\ Len(statuses) <= max_retries
    /\ pc = "attempt" =>
          /\ attempt = Len(statuses)
          /\ attempt < max_retries
          /\ ListingRequests <= page * max_retries + attempt
    /\ pc = "page" => ListingRequests <= page * max_retries
    /\ pc \in {"flatten", "done"} => ListingRequests <= page * max_retries
    /\ pc = "failed" => ListingRequests <= (page + 1) * max_retries

\* C19 witness: the first page took all six attempts, and the request of the
\* second page is at its sixth attempt as well
C19_Witness ==
    /\ pc = "attempt"
    /\ page = 1
    /\ attempt = 5
    /\ max_retries = 6
    /\ ListingRequests = 11

----------------------------------------------------------------------------
(* Properties of the backoff sleeps, under SpecFetch *)

\* the transient responses among the statuses
TransientCount(sts) == Len(SelectSeq(sts, LAMBDA st : st \in {403, 429, 500, 503}))

\* C20: exponential_backoff_request sleeps exactly once after every transient
\* response, that of its last permitted attempt included: when the retries
\* are exhausted (RuntimeError) it has slept max_retries times, for the
\* attempt indices 0..max_retries-1, the last sleep coming after the last
\* request and before the error.
C20_SleepAfterEveryTransient ==
    /\ Len(sleeps) = TransientCount(statuses)
    /\ (pc = "failed" /\ error.kind = "RuntimeError") =>
          /\ Len(requests) = max_retries
          /\ Len(sleeps) = max_retries
          /\ \A a \in 0..(max_retries - 1) : IsBackoffTerm(sleeps[a + 1], a)

----------------------------------------------------------------------------
(* Properties of parallel invocations, under SpecParallel *)

\* the first n pages of the remote
FirstPages(n) == SubSeq(pages, 1, n)

\* the invocation of frame c holds, and returns, what it would when it ran
\* alone against the pages of the remote
RunsAsAlone(c) ==
    /\ c.error = NoError
    /\ c.pc \in {"page", "attempt", "flatten", "done"} =>
          /\ c.video_id = <<"ID">>
          /\ c.page <= Len(pages)
          /\ c.comments = AllItems(FirstPages(c.page))
          /\ c.next_token = IF c.page = 0 THEN "None" ELSE pages[c.page].nextPageToken
    /\ c.pc = "attempt" =>
          /\ c.attempt = Len(c.statuses)
          /\ c.params["videoId"] = c.video_id
          /\ ("pageToken" \in DOMAIN c.params) = (c.page >= 1)
          /\ c.page >= 1 => c.params["pageToken"] = pages[c.page].nextPageToken
    /\ c.pc \in {"flatten", "done"} =>
          /\ c.page = Len(pages)
          /\ pages[c.page].nextPageToken = "None"
    /\ c.pc = "done" => c.result = << <<c.title, FlattenAll(AllItems(pages))>> >>
    /\ c.pc # "done" => c.result = << >>

\* C17: two invocations of scrape_comments in parallel, under any
\* interleaving of their steps, share no mutable state: the continuation
\* token, the request parameters, the attempt counter and the accumulated
\* items of each are its own, and each returns what it would return alone
\* against the same remote responses.
C17_NoSharedState == RunsAsAlone(Frame) /\ RunsAsAlone(other)

\* C17 witness: one invocation has returned the three records of two pages
\* while the other, with the first page only, is at the third attempt of its
\* request of the second page
C17_Witness ==
    /\ pc = "done"
    /\ Len(pages) = 2
    /\ Len(result[1][2]) = 3
    /\ other.pc = "attempt"
    /\ other.page = 1
    /\ other.attempt = 2
    /\ Len(other.comments) = 1
    /\ other.params["pageToken"] = "A"

====
